---- MODULE Spec2Model ----
(***************************************************************************)
(* Model of src/main.py: a batch job that fetches digest e-mails, extracts *)
(* the article blocks, canonicalizes and de-duplicates their URLs, writes  *)
(* the raw digest, asks a language model to format it and writes the       *)
(* formatted digest.                                                       *)
(*                                                                         *)
(* A Python str is modelled as a sequence of one-character strings, so the *)
(* regular expressions and splits of the source work on characters.        *)
(***************************************************************************)
EXTENDS Integers, Sequences, FiniteSets, TLC

VARIABLES
    cRaw,       \* canonicalization: the raw URL string
    cUrl,       \* canonicalization: the current value of `url`
    cPrev,      \* canonicalization: the value before the last application
    cN,         \* canonicalization: number of applications so far
    xIn,        \* extraction: the parts a digest body is built from
    xBody,      \* extraction: the body `email['body']`
    xOut,       \* extraction: the (summary, url) pairs of lines 161-164
    bPayload,   \* body selection: the payload `msg['payload']`
    bOut,       \* body selection: the outcome of lines 116-123
    pc,         \* run: where main is
    messages,   \* run: `messages`, the ids the provider listed
    fetches,    \* run: number of messages().get() calls issued
    clock,      \* run: the wall clock datetime.now() reads
    email_list, \* run: `email_list` as appended to, in provider order
    emails,     \* run: `emails`, what get_emails_by_subject returned
    returned,   \* run: get_emails_by_subject has returned
    done,       \* run: number of e-mails the loop of line 159 has processed
    urls,       \* run: `urls`
    articles,   \* run: `articles`
    discovered, \* run (history): every canonicalized article met, in order
    rawFile,    \* run: content of output_<window>.txt
    rawWrites,  \* run: number of writes of output_<window>.txt
    calls,      \* run: number of client.responses.create calls issued
    response,   \* run: outcome and text of the summarization call
    fmtFile,    \* run: content of output_<window>_formatted.txt
    fmtWrites,  \* run: number of writes of output_<window>_formatted.txt
    err         \* run: the exception that ended the run, "none" if none

canonVars == <<cRaw, cUrl, cPrev, cN>>
extractVars == <<xIn, xBody, xOut>>
bodyVars == <<bPayload, bOut>>
runVars == <<pc, messages, fetches, clock, email_list, emails, returned, done,
             urls, articles, discovered, rawFile, rawWrites, calls, response,
             fmtFile, fmtWrites, err>>
\* what a run of main leaves alone
otherVars == <<canonVars, extractVars, bodyVars>>
vars == <<canonVars, extractVars, bodyVars, runVars>>

\* the values of a part of the state that a specification does not use
CanonIdle == cRaw = <<>> /\ cUrl = <<>> /\ cPrev = <<>> /\ cN = 0
ExtractIdle == xIn = <<>> /\ xBody = <<>> /\ xOut = <<>>
BodyIdle == bPayload = <<>> /\ bOut = <<>>
RunIdle ==
    /\ pc = "idle" /\ messages = <<>> /\ fetches = 0 /\ clock = 0
    /\ email_list = <<>> /\ emails = <<>> /\ returned = FALSE /\ done = 0
    /\ urls = <<>> /\ articles = <<>> /\ discovered = <<>>
    /\ rawFile = <<>> /\ rawWrites = 0 /\ calls = 0
    /\ response = [state |-> "none", text |-> <<>>]
    /\ fmtFile = <<>> /\ fmtWrites = 0 /\ err = "none"

----------------------------------------------------------------------------
(* Bounds of the model *)

\* longest raw URL, counted in fragments of RawFrags
MaxFrags == 4
\* how many times the canonicalization is applied in a row
MaxApply == 2
\* most article blocks in a generated digest body
MaxBlocks == 2
\* most parts in a generated payload
MaxParts == 2
\* most messages the provider lists for the query
MaxMsgs == 2
\* latest reading of the wall clock
MaxTick == 1

----------------------------------------------------------------------------
(* Strings *)

Max(S) == CHOOSE x \in S : \A y \in S : y <= x
Min(S) == CHOOSE x \in S : \A y \in S : x <= y

\* s[i..] starts with the non-empty pat
StartsAt(s, pat, i) ==
    /\ i >= 1
    /\ i + Len(pat) - 1 <= Len(s)
    /\ s[i] = pat[1]
    /\ SubSeq(s, i, i + Len(pat) - 1) = pat

\* the positions at which pat occurs in s
Occurrences(s, pat) == {i \in 1..Len(s) : StartsAt(s, pat, i)}

RECURSIVE Concat(_)
Concat(ss) == IF ss = <<>> THEN <<>> ELSE Head(ss) \o Concat(Tail(ss))

\* the sequences of at most n elements of S
RECURSIVE SeqsUpTo(_, _)
SeqsUpTo(S, n) ==
    IF n = 0 THEN {<<>>}
    ELSE LET P == SeqsUpTo(S, n - 1)
         IN  P \cup {Append(p, x) : p \in P, x \in S}

\* the literal 'http' of the pattern 'http.*http'
HTTP == <<"h", "t", "t", "p">>
\* the literal '&ct=ga&' of the pattern '&ct=ga&.*'
TRACK == <<"&", "c", "t", "=", "g", "a", "&">>

----------------------------------------------------------------------------
(* URL canonicalization: main, lines 165-167 *)

\* re.sub(r'[<>]', '', url)
RemoveBrackets(s) == SelectSeq(s, LAMBDA c : c \notin {"<", ">"})

\* For a match of 'http.*http' that starts at i: the start of its second
\* 'http'. '.*' is greedy and does not match a line feed, so it is the last
\* 'http' that no line feed separates from the first; 0 when there is none.
LastHttpOnLine(s, i) ==
    LET J == {j \in (i + 4)..Len(s) :
                /\ StartsAt(s, HTTP, j)
                /\ \A k \in (i + 4)..(j - 1) : s[k] # "\n"}
    IN  IF J = {} THEN 0 ELSE Max(J)

\* the scan from i on: the text up to the leftmost match is kept, the match
\* is replaced by 'http', and the scan goes on behind it
RECURSIVE CollapseFrom(_, _)
CollapseFrom(s, i) ==
    LET M == {k \in i..Len(s) : StartsAt(s, HTTP, k) /\ LastHttpOnLine(s, k) # 0}
    IN  IF M = {} THEN SubSeq(s, i, Len(s))
        ELSE SubSeq(s, i, Min(M) - 1) \o HTTP
                \o CollapseFrom(s, LastHttpOnLine(s, Min(M)) + 4)

\* re.sub('http.*http', 'http', url)
CollapseHttp(s) == CollapseFrom(s, 1)

\* the end of the line that holds position i: the next line feed, or the end
EndOfLine(s, i) ==
    LET K == {k \in i..Len(s) : s[k] = "\n"}
    IN  IF K = {} THEN Len(s) + 1 ELSE Min(K)

\* the scan from i on: the text up to the leftmost '&ct=ga&' is kept, the
\* rest of that line is dropped, and the scan goes on at its line feed
RECURSIVE TruncateFrom(_, _)
TruncateFrom(s, i) ==
    LET M == {k \in i..Len(s) : StartsAt(s, TRACK, k)}
    IN  IF M = {} THEN SubSeq(s, i, Len(s))
        ELSE SubSeq(s, i, Min(M) - 1)
                \o TruncateFrom(s, EndOfLine(s, Min(M) + Len(TRACK)))

\* re.sub('&ct=ga&.*', '', url)
TruncateTracking(s) == TruncateFrom(s, 1)

\* mutant: the brackets are removed after the collapse instead of before it
CanonicalizeBracketsLate(u) == TruncateTracking(RemoveBrackets(CollapseHttp(u)))

\* mutant: the collapse also drops the text in front of the first 'http'
CanonicalizeDropPrefix(u) ==
    LET s == RemoveBrackets(u)
        P == {i \in 1..Len(s) : StartsAt(s, HTTP, i) /\ LastHttpOnLine(s, i) # 0}
    IN  TruncateTracking(IF P = {} THEN s
                         ELSE CollapseFrom(s, Min(P)))

\* lines 165-167, in order
Canonicalize(u) == TruncateTracking(CollapseHttp(RemoveBrackets(u)))

----------------------------------------------------------------------------
(* Article extraction: main, lines 161-164 *)

CRLF == <<"\r", "\n">>
BLANK == CRLF \o CRLF
\* the alternatives of the pattern '(===|- - - )'
DELIM_EQ == <<"=", "=", "=">>
DELIM_DASH == <<"-", " ", "-", " ", "-", " ">>

\* the alternative of '(===|- - - )' that matches at i, <<>> when none does
DelimAt(s, i) ==
    IF StartsAt(s, DELIM_EQ, i) THEN DELIM_EQ
    ELSE IF StartsAt(s, DELIM_DASH, i) THEN DELIM_DASH
    ELSE <<>>

\* the scan from i on: the segment up to the leftmost delimiter, the
\* delimiter, and the split of what follows it
RECURSIVE ReSplitFrom(_, _)
ReSplitFrom(s, i) ==
    LET D == {k \in i..Len(s) : DelimAt(s, k) # <<>>}
    IN  IF D = {} THEN <<SubSeq(s, i, Len(s))>>
        ELSE <<SubSeq(s, i, Min(D) - 1), DelimAt(s, Min(D))>>
                \o ReSplitFrom(s, Min(D) + Len(DelimAt(s, Min(D))))

\* re.split('(===|- - - )', body): the group is capturing, so the result
\* alternates segment, delimiter, segment, ...
ReSplitDelims(s) == ReSplitFrom(s, 1)

RECURSIVE SplitFrom(_, _, _)
SplitFrom(s, sep, i) ==
    LET K == {k \in i..Len(s) : StartsAt(s, sep, k)}
    IN  IF K = {} THEN <<SubSeq(s, i, Len(s))>>
        ELSE <<SubSeq(s, i, Min(K) - 1)>> \o SplitFrom(s, sep, Min(K) + Len(sep))

\* s.split(sep), and re.split(sep, s) for a literal sep
Split(s, sep) == SplitFrom(s, sep, 1)

\* the characters str.strip() removes (the ASCII ones)
Whitespace == {" ", "\t", "\n", "\r", "\f"}

\* s.strip()
Strip(s) ==
    LET I == {i \in 1..Len(s) : s[i] \notin Whitespace}
    IN  IF I = {} THEN <<>> ELSE SubSeq(s, Min(I), Max(I))

\* l[1:-1]
Interior(l) == SubSeq(l, 2, Len(l) - 1)
\* l[:-1]
AllButLast(l) == SubSeq(l, 1, Len(l) - 1)

\* re.split(...)[4] exists: otherwise line 161 raises IndexError
HasArticleSegment(body) == Len(ReSplitDelims(body)) >= 5

\* mutant: the footer chunk is kept ([1:] instead of [1:-1])
ExtractBlocksKeepFooter(body) ==
    LET l == Split(ReSplitDelims(body)[5], BLANK) IN SubSeq(l, 2, Len(l))

\* line 161: arts = re.split('(===|- - - )', body)[4].split('\r\n\r\n')[1:-1]
ExtractBlocks(body) ==
    Interior(Split(ReSplitDelims(body)[5], BLANK))

\* lines 163-164: the summary and the URL line of one block
RawArticle(a) ==
    LET lines == Split(a, CRLF)
    IN  [ body |-> Strip(Concat(AllButLast(lines))),
          url  |-> Strip(lines[Len(lines)]) ]

\* lines 161-164 for one body: the (summary, url) pair of every block
RawArticles(body) ==
    LET arts == ExtractBlocks(body)
    IN  [i \in 1..Len(arts) |-> RawArticle(arts[i])]

----------------------------------------------------------------------------
(* Body decoding: base64.urlsafe_b64decode(data).decode('utf-8'), for data *)
(* that is padded base64url of ASCII text                                  *)

\* the base64url alphabet, in the order of its values 0..63
B64Alphabet ==
    <<
       "A", "B", "C", "D", "E", "F", "G", "H", "I", "J", "K", "L", "M", "N", "O", "P",
       "Q", "R", "S", "T", "U", "V", "W", "X", "Y", "Z", "a", "b", "c", "d", "e", "f",
       "g", "h", "i", "j", "k", "l", "m", "n", "o", "p", "q", "r", "s", "t", "u", "v",
       "w", "x", "y", "z", "0", "1", "2", "3", "4", "5", "6", "7", "8", "9", "-", "_" >>

\* character -> value
B64Values ==
    [c \in {B64Alphabet[i] : i \in 1..64} |->
        (CHOOSE i \in 1..64 : B64Alphabet[i] = c) - 1]

B64Value(c) == B64Values[c]

\* the characters with the codes 32..126, in order ("grave" stands for the
\* grave accent, code 96, which a string of this language cannot hold)
AsciiPrintable ==
    <<
       " ", "!", "\"", "#", "$", "%", "&", "'", "(", ")", "*", "+", ",", "-", ".", "/",
       "0", "1", "2", "3", "4", "5", "6", "7", "8", "9", ":", ";", "<", "=", ">", "?",
       "@", "A", "B", "C", "D", "E", "F", "G", "H", "I", "J", "K", "L", "M", "N", "O",
       "P", "Q", "R", "S", "T", "U", "V", "W", "X", "Y", "Z", "[", "\\", "]", "^", "_",
       "grave", "a", "b", "c", "d", "e", "f", "g", "h", "i", "j", "k", "l", "m", "n", "o",
       "p", "q", "r", "s", "t", "u", "v", "w", "x", "y", "z", "{", "|", "}", "~" >>

\* the character of a one-byte UTF-8 sequence
Chr(b) ==
    IF b = 9 THEN "\t" ELSE IF b = 10 THEN "\n" ELSE IF b = 12 THEN "\f"
    ELSE IF b = 13 THEN "\r" ELSE AsciiPrintable[b - 31]

Ord(c) ==
    IF c = "\t" THEN 9 ELSE IF c = "\n" THEN 10 ELSE IF c = "\f" THEN 12
    ELSE IF c = "\r" THEN 13
    ELSE 31 + (CHOOSE i \in 1..Len(AsciiPrintable) : AsciiPrintable[i] = c)

\* base64.urlsafe_b64decode: every four characters give three bytes, less
\* one for each '=' that pads the last four
B64DecodeBytes(d) ==
    LET v(i) == IF d[i] = "=" THEN 0 ELSE B64Value(d[i])
        w(q) == v(4 * q + 1) * 262144 + v(4 * q + 2) * 4096
                    + v(4 * q + 3) * 64 + v(4 * q + 4)
        pad  == Cardinality({i \in 1..Len(d) : d[i] = "="})
    IN  [k \in 1..(3 * (Len(d) \div 4) - pad) |->
            LET q == (k - 1) \div 3
            IN  CASE (k - 1) % 3 = 0 -> w(q) \div 65536
                  [] (k - 1) % 3 = 1 -> (w(q) \div 256) % 256
                  [] (k - 1) % 3 = 2 -> w(q) % 256]

\* bytes.decode('utf-8') of bytes below 128
Utf8Decode(bytes) == [i \in 1..Len(bytes) |-> Chr(bytes[i])]

DecodeData(data) == Utf8Decode(B64DecodeBytes(data))

\* what the provider does: the text as padded base64url
B64EncodeBytes(b) ==
    LET x(i) == IF i <= Len(b) THEN b[i] ELSE 0
        w(g) == x(3 * g + 1) * 65536 + x(3 * g + 2) * 256 + x(3 * g + 3)
    IN  [j \in 1..(4 * ((Len(b) + 2) \div 3)) |->
            LET g == (j - 1) \div 4
            IN  CASE (j - 1) % 4 = 0 -> B64Alphabet[(w(g) \div 262144) + 1]
                  [] (j - 1) % 4 = 1 -> B64Alphabet[((w(g) \div 4096) % 64) + 1]
                  [] (j - 1) % 4 = 2 ->
                        IF 3 * g + 2 <= Len(b)
                        THEN B64Alphabet[((w(g) \div 64) % 64) + 1] ELSE "="
                  [] (j - 1) % 4 = 3 ->
                        IF 3 * g + 3 <= Len(b)
                        THEN B64Alphabet[(w(g) % 64) + 1] ELSE "="]

EncodeText(s) == B64EncodeBytes([i \in 1..Len(s) |-> Ord(s[i])])

----------------------------------------------------------------------------
(* Body selection: get_emails_by_subject, lines 116-123. A payload is a    *)
(* record that holds the key "parts" or "body" only when the message does, *)
(* and a part's body holds "data" only when the provider sent it inline.   *)

\* what line 120 or 123 leaves in `body`, or the exception it raises
Selected(text) == [err |-> "none", body |-> text]
Raised(e) == [err |-> e, body |-> <<>>]

\* mutant: the top-level body is used when no part is text/plain
SelectBodyFallThrough(payload) ==
    LET plain == IF "parts" \in DOMAIN payload
                 THEN {i \in 1..Len(payload.parts) : payload.parts[i].mimeType = "text/plain"}
                 ELSE {}
    IN  IF plain # {}
        THEN IF "data" \in DOMAIN payload.parts[Min(plain)].body
             THEN Selected(DecodeData(payload.parts[Min(plain)].body.data))
             ELSE Raised("KeyError")
        ELSE IF "body" \in DOMAIN payload /\ "data" \in DOMAIN payload.body
             THEN Selected(DecodeData(payload.body.data))
             ELSE Selected(<<>>)

SelectBody(payload) ==
    IF "parts" \in DOMAIN payload
    THEN LET plain == {i \in 1..Len(payload.parts) :
                          payload.parts[i].mimeType = "text/plain"}
         IN  IF plain = {} THEN Selected(<<>>)
             ELSE IF "data" \in DOMAIN payload.parts[Min(plain)].body
                  THEN Selected(DecodeData(payload.parts[Min(plain)].body.data))
                  ELSE Raised("KeyError")
    ELSE IF "body" \in DOMAIN payload /\ "data" \in DOMAIN payload.body
         THEN Selected(DecodeData(payload.body.data))
         ELSE Selected(<<>>)

----------------------------------------------------------------------------
(* Digest bodies in the documented layout *)

RECURSIVE Join(_, _)
Join(ss, sep) ==
    IF ss = <<>> THEN <<>>
    ELSE IF Len(ss) = 1 THEN ss[1]
    ELSE ss[1] \o sep \o Join(Tail(ss), sep)

\* one article block: the summary lines, then the URL line
BlockText(b) == Join(Append(b.lines, b.url), CRLF)

\* header chunk, the blocks, footer chunk, joined by blank lines
ArticleSegment(header, blocks, footer) ==
    Join(<<header>> \o [i \in 1..Len(blocks) |-> BlockText(blocks[i])] \o <<footer>>,
         BLANK)

\* segment, delimiter, segment, delimiter, article segment
DigestBody(p) ==
    p.seg0 \o p.d1 \o p.seg1 \o p.d2 \o ArticleSegment(p.header, p.blocks, p.footer)

----------------------------------------------------------------------------
(* Dates: get_emails_by_subject, lines 89-113. A Date header value is      *)
(* modelled by the features strptime looks at: whether it starts with a    *)
(* weekday, whether a parenthesised zone name follows, whether the zone is *)
(* a numeric UTC offset, and the local time and offset it spells.          *)

\* line 89: the default '' of a missing Date header
EmptyDate == [kind |-> "empty", weekday |-> FALSE, comment |-> FALSE,
              zone |-> "none", local |-> 0, off |-> 0]

\* next((h['value'] for h in headers if h['name'] == name), default)
HeaderValue(headers, name, default) ==
    LET I == {i \in 1..Len(headers) : headers[i].name = name}
    IN  IF I = {} THEN default ELSE headers[Min(I)].value

\* line 102: re.sub(r'\([^)]*\)', '', date_str).strip()
CleanDate(d) == [d EXCEPT !.comment = FALSE]

\* datetime.strptime(cleaned, fmt) succeeds, for the formats of lines 93-95
MatchesFormat(d, fmt) ==
    /\ d.kind = "date"
    /\ d.zone = "numeric"
    /\ CASE fmt = "%a, %d %b %Y %H:%M:%S %z"      -> d.weekday /\ ~d.comment
         [] fmt = "%a, %d %b %Y %H:%M:%S %z (%Z)" -> d.weekday /\ d.comment
         [] fmt = "%d %b %Y %H:%M:%S %z"          -> ~d.weekday /\ ~d.comment

DateFormats ==
    << "%a, %d %b %Y %H:%M:%S %z",
       "%a, %d %b %Y %H:%M:%S %z (%Z)",
       "%d %b %Y %H:%M:%S %z" >>

\* lines 98-109: the first format that parses gives an offset-aware
\* datetime; when none does, datetime.now() gives an offset-naive one
ParseDate(date_str, now) ==
    IF \E k \in 1..Len(DateFormats) : MatchesFormat(CleanDate(date_str), DateFormats[k])
    THEN [aware |-> TRUE, local |-> date_str.local, off |-> date_str.off]
    ELSE [aware |-> FALSE, local |-> now, off |-> 0]

----------------------------------------------------------------------------
(* Sorting: get_emails_by_subject, line 138 *)

\* a < b on datetimes of one kind: aware ones compare as instants
Less(a, b) ==
    IF a.aware THEN a.local - a.off < b.local - b.off
    ELSE a.local < b.local

\* a < b raises TypeError: an offset-naive against an offset-aware datetime
Incomparable(a, b) == a.aware # b.aware

\* some comparison of the sort raises: a sort has to compare across any
\* split of the list in two, so it does as soon as both kinds are present
SortRaises(l) ==
    \E i, j \in 1..Len(l) : Incomparable(l[i].date, l[j].date)

\* mutant: an equal timestamp is inserted in front (the sort is not stable)
RECURSIVE InsertDescUnstable(_, _)
InsertDescUnstable(l, e) ==
    IF l = <<>> THEN <<e>>
    ELSE IF ~Less(e.date, Head(l).date) THEN <<e>> \o l
    ELSE <<Head(l)>> \o InsertDescUnstable(Tail(l), e)

\* e inserted behind every element that is not older than e
RECURSIVE InsertDesc(_, _)
InsertDesc(l, e) ==
    IF l = <<>> THEN <<e>>
    ELSE IF Less(Head(l).date, e.date) THEN <<e>> \o l
    ELSE <<Head(l)>> \o InsertDesc(Tail(l), e)

\* list.sort(key=lambda x: x['date'], reverse=True): stable, newest first
RECURSIVE SortDesc(_)
SortDesc(l) ==
    IF l = <<>> THEN <<>>
    ELSE InsertDesc(SortDesc(SubSeq(l, 1, Len(l) - 1)), l[Len(l)])

----------------------------------------------------------------------------
(* De-duplication and rendering: main, lines 157-189 *)

Range(s) == {s[i] : i \in 1..Len(s)}

\* lines 165-167 applied to the pairs of lines 163-164
CanonArticles(body) ==
    LET raw == RawArticles(body)
    IN  [i \in 1..Len(raw) |->
            [body |-> raw[i].body, url |-> Canonicalize(raw[i].url)]]

\* mutant: an article is dropped only when it repeats the URL just before it
KeepArticleIfNotLast(acc, a) ==
    IF acc.urls # <<>> /\ acc.urls[Len(acc.urls)] = a.url THEN acc
    ELSE [urls |-> Append(acc.urls, a.url), articles |-> Append(acc.articles, a)]

\* lines 168-173: `if url not in urls`
KeepArticle(acc, a) ==
    IF a.url \in Range(acc.urls) THEN acc
    ELSE [urls |-> Append(acc.urls, a.url), articles |-> Append(acc.articles, a)]

\* the loop of line 162 over the blocks of one e-mail
RECURSIVE KeepArticles(_, _)
KeepArticles(acc, arts) ==
    IF arts = <<>> THEN acc
    ELSE KeepArticles(KeepArticle(acc, Head(arts)), Tail(arts))

\* lines 175-177: f"{article['body']}\n{article['url']}\n\n" for each article
RECURSIVE NewsText(_)
NewsText(as) ==
    IF as = <<>> THEN <<>>
    ELSE Head(as).body \o <<"\n">> \o Head(as).url \o <<"\n", "\n">> \o NewsText(Tail(as))

\* lines 182-187: the two headings and the window; each fixed text and each
\* date is one element
HeaderBlock ==
    << "###### <period heading>", "\n", "\n",
       "<after_date_text>", "~", "<before_date_text>", "\n", "\n",
       "###### <articles heading>", "\n" >>

\* lines 182-189: the text written to the raw digest file
RawDigestText(as) == HeaderBlock \o NewsText(as) \o <<"\n">>

----------------------------------------------------------------------------
(* What the provider and the summarizer may answer *)

\* messages().list(): the key 'messages' is absent when nothing matches
ListResult(n) ==
    IF n = 0 THEN [resultSizeEstimate |-> 0]
    ELSE [messages |-> [i \in 1..n |-> [id |-> i]], resultSizeEstimate |-> n]

\* mutant: results['messages'], which raises KeyError when nothing matches
MessagesOfNoDefault(results) ==
    IF "messages" \in DOMAIN results
    THEN [err |-> "none", ids |-> results.messages]
    ELSE [err |-> "KeyError", ids |-> <<>>]

\* line 67: results.get('messages', [])
MessagesOf(results) ==
    IF "messages" \in DOMAIN results
    THEN [err |-> "none", ids |-> results.messages]
    ELSE [err |-> "none", ids |-> <<>>]

DateValue(weekday, comment, zone, local, off) ==
    [kind |-> "date", weekday |-> weekday, comment |-> comment,
     zone |-> zone, local |-> local, off |-> off]

\* the header lists of the messages: a Date with numeric offset (two of them
\* spell the same instant), one with a zone name, and no Date at all
HeaderLists ==
    { << [name |-> "Date", value |-> DateValue(TRUE, FALSE, "numeric", 2, 1)] >>,
      << [name |-> "Date", value |-> DateValue(TRUE, TRUE, "numeric", 1, 0)] >>,
      << [name |-> "Date", value |-> DateValue(FALSE, FALSE, "numeric", 2, 0)] >>,
      << [name |-> "Date", value |-> DateValue(TRUE, FALSE, "name", 3, 0)] >>,
      << [name |-> "Subject", value |-> <<"N">>] >> }

Url1 == <<"h", "t", "t", "p", ":", "/", "/", "a">>
Url2 == <<"h", "t", "t", "p", ":", "/", "/", "b">>
Url3 == <<"h", "t", "t", "p", ":", "/", "/", "c">>
\* Url1 behind a redirect, in brackets, with tracking parameters
Url1Wrapped ==
    <<"<", "h", "t", "t", "p", ":", "/", "/", "w", "?", "u", "=">> \o Url1
        \o TRACK \o <<"c", "d", "=", "1", ">">>

\* a digest whose first and third article share a canonical URL
BodyA ==
    DigestBody([seg0 |-> <<>>, d1 |-> DELIM_EQ, seg1 |-> <<" ", "N", " ">>,
                d2 |-> DELIM_EQ, header |-> <<>>,
                blocks |-> << [lines |-> << <<"A">> >>, url |-> Url1Wrapped],
                              [lines |-> << <<"B">>, <<"b">> >>, url |-> Url2],
                              [lines |-> << <<"C">> >>, url |-> Url1] >>,
                footer |-> <<>>])
        \o DELIM_DASH \o <<"F">>

\* a digest that shares Url2 with BodyA
BodyB ==
    DigestBody([seg0 |-> <<>>, d1 |-> DELIM_EQ, seg1 |-> <<" ", "N", " ">>,
                d2 |-> DELIM_EQ, header |-> <<>>,
                blocks |-> << [lines |-> << <<"D">> >>, url |-> Url2],
                              [lines |-> << <<"E">> >>, url |-> Url3] >>,
                footer |-> <<>>])
        \o DELIM_DASH \o <<"F">>

\* a message of another layout: one delimiter only
BodyOther == <<"p", "r", "o", "m", "o">> \o DELIM_EQ \o <<"x">>

InlineBody(text) == [size |-> Len(text), data |-> EncodeText(text)]

\* the payloads of the messages: single-part and multi-part digests, a
\* message of another layout, a multi-part message without text/plain part,
\* and one whose text/plain part is not sent inline
Payloads ==
    { [mimeType |-> "text/plain", body |-> InlineBody(BodyA)],
      [mimeType |-> "multipart/alternative", body |-> [size |-> 0],
       parts |-> << [mimeType |-> "text/html", body |-> InlineBody(<<"<", "p", ">">>)],
                    [mimeType |-> "text/plain", body |-> InlineBody(BodyB)] >>],
      [mimeType |-> "text/plain", body |-> InlineBody(BodyOther)],
      [mimeType |-> "multipart/mixed", body |-> InlineBody(BodyB),
       parts |-> << [mimeType |-> "text/html", body |-> InlineBody(<<"<", "p", ">">>)] >>],
      [mimeType |-> "multipart/mixed", body |-> [size |-> 0],
       parts |-> << [mimeType |-> "text/plain", body |-> [size |-> 9]] >>] }

\* what response.output_text may be
ResponseTexts == { <<>>, <<"*", " ", "T", " ", "-", " ", "S", " ", "U">> }

----------------------------------------------------------------------------
(* One run of main(after_date, subject_filter), from the query of line 154 *)
(* on; authentication is taken to have succeeded.                          *)

Init ==
    /\ pc = "list" /\ messages = <<>> /\ fetches = 0
    /\ clock = 0
    /\ email_list = <<>> /\ emails = <<>> /\ returned = FALSE /\ done = 0
    /\ urls = <<>> /\ articles = <<>> /\ discovered = <<>>
    /\ rawFile = <<>> /\ rawWrites = 0 /\ calls = 0
    /\ response = [state |-> "none", text |-> <<>>]
    /\ fmtFile = <<>> /\ fmtWrites = 0 /\ err = "none"
    /\ CanonIdle /\ ExtractIdle /\ BodyIdle

\* an uncaught exception ends the run
Crash(e) == pc' = "crashed" /\ err' = e

\* lines 61-71: the query; an empty result returns [] at once
ListMessages ==
    /\ pc = "list"
    /\ \E n \in 0..MaxMsgs :
         LET got == MessagesOf(ListResult(n))
         IN  IF got.err # "none"
             THEN Crash(got.err) /\ UNCHANGED <<messages, returned>>
             ELSE /\ messages' = got.ids
                  /\ returned' = (got.ids = <<>>)
                  /\ pc' = IF got.ids = <<>> THEN "extract" ELSE "fetch"
                  /\ UNCHANGED err
    /\ UNCHANGED <<otherVars, fetches, clock, email_list, emails, done, urls, articles,
                   discovered, rawFile, rawWrites, calls, response, fmtFile,
                   fmtWrites>>

\* lines 76-135: one pass of the loop; the provider answers with any message
FetchMessage ==
    /\ pc = "fetch"
    /\ Len(email_list) < Len(messages)
    /\ fetches' = fetches + 1
    /\ \E payload \in Payloads :
         LET sel == SelectBody(payload)
         IN  \E headers \in HeaderLists :
               LET date_str == HeaderValue(headers, "Date", EmptyDate)
                   date_obj == ParseDate(date_str, clock)
               IN  /\ IF date_obj.aware THEN clock' = clock
                      ELSE clock' \in {c \in {clock, clock + 1} : c <= MaxTick}
                   /\ IF sel.err # "none"
                      THEN Crash(sel.err) /\ UNCHANGED email_list
                      ELSE /\ email_list' =
                                Append(email_list,
                                       [id   |-> messages[Len(email_list) + 1].id,
                                        date |-> date_obj,
                                        body |-> sel.body])
                           /\ UNCHANGED <<pc, err>>
    /\ UNCHANGED <<otherVars, messages, emails, returned, done, urls, articles, discovered,
                   rawFile, rawWrites, calls, response, fmtFile, fmtWrites>>

\* lines 138-140: the sort and the return
SortAndReturn ==
    /\ pc = "fetch"
    /\ Len(email_list) = Len(messages)
    /\ IF SortRaises(email_list)
       THEN Crash("TypeError") /\ UNCHANGED <<emails, returned>>
       ELSE /\ emails' = SortDesc(email_list)
            /\ returned' = TRUE
            /\ pc' = "extract"
            /\ UNCHANGED err
    /\ UNCHANGED <<otherVars, messages, fetches, clock, email_list, done, urls, articles,
                   discovered, rawFile, rawWrites, calls, response, fmtFile,
                   fmtWrites>>

\* lines 159-173: one pass of the loop over `emails`
ProcessEmail ==
    /\ pc = "extract"
    /\ done < Len(emails)
    /\ LET body == emails[done + 1].body
       IN  IF ~HasArticleSegment(body)
           THEN Crash("IndexError") /\ UNCHANGED <<done, urls, articles, discovered>>
           ELSE LET found == CanonArticles(body)
                    kept  == KeepArticles([urls |-> urls, articles |-> articles], found)
                IN  /\ urls' = kept.urls
                    /\ articles' = kept.articles
                    /\ discovered' = discovered \o found
                    /\ done' = done + 1
                    /\ UNCHANGED <<pc, err>>
    /\ UNCHANGED <<otherVars, messages, fetches, clock, email_list, emails, returned,
                   rawFile, rawWrites, calls, response, fmtFile, fmtWrites>>

\* lines 175-192: the raw digest is rendered and written
WriteRawDigest ==
    /\ pc = "extract"
    /\ done = Len(emails)
    /\ rawFile' = RawDigestText(articles)
    /\ rawWrites' = rawWrites + 1
    /\ pc' = "summarize"
    /\ UNCHANGED <<otherVars, messages, fetches, clock, email_list, emails, returned, done,
                   urls, articles, discovered, calls, response, fmtFile,
                   fmtWrites, err>>

\* lines 213-222: the summarization call returns some text
SummarizeReturns ==
    /\ pc = "summarize"
    /\ calls' = calls + 1
    /\ \E text \in ResponseTexts : response' = [state |-> "returned", text |-> text]
    /\ pc' = "format"
    /\ UNCHANGED <<otherVars, messages, fetches, clock, email_list, emails, returned, done,
                   urls, articles, discovered, rawFile, rawWrites, fmtFile,
                   fmtWrites, err>>

\* mutant: the failure of the call is swallowed and the run goes on
SummarizeFailsSwallowed ==
    /\ pc = "summarize"
    /\ calls' = calls + 1
    /\ response' = [state |-> "failed", text |-> <<>>]
    /\ pc' = "format"
    /\ UNCHANGED <<otherVars, messages, fetches, clock, email_list, emails, returned, done,
                   urls, articles, discovered, rawFile, rawWrites, fmtFile,
                   fmtWrites, err>>

\* lines 213-222: the summarization call raises
SummarizeFails ==
    /\ pc = "summarize"
    /\ calls' = calls + 1
    /\ response' = [state |-> "failed", text |-> <<>>]
    /\ Crash("SummarizerError")
    /\ UNCHANGED <<otherVars, messages, fetches, clock, email_list, emails, returned, done,
                   urls, articles, discovered, rawFile, rawWrites, fmtFile,
                   fmtWrites>>

\* lines 225-227: the formatted digest is written
WriteFormattedDigest ==
    /\ pc = "format"
    /\ fmtFile' = response.text
    /\ fmtWrites' = fmtWrites + 1
    /\ pc' = "done"
    /\ UNCHANGED <<otherVars, messages, fetches, clock, email_list, emails, returned, done,
                   urls, articles, discovered, rawFile, rawWrites, calls,
                   response, err>>

Next ==
    \/ ListMessages
    \/ FetchMessage
    \/ SortAndReturn
    \/ ProcessEmail
    \/ WriteRawDigest
    \/ SummarizeReturns
    \/ SummarizeFails
    \/ WriteFormattedDigest

Spec == Init /\ [][Next]_vars

----------------------------------------------------------------------------
(* C1: the kept articles are exactly the first occurrences of each         *)
(* canonical URL among the articles met so far, in the order in which they *)
(* were met (e-mails as returned, blocks in order); later occurrences are  *)
(* dropped, the kept URLs are pairwise distinct, nothing is reordered.     *)
C1_FirstOccurrences(d) ==
    LET first == {i \in 1..Len(d) : \A j \in 1..(i - 1) : d[j].url # d[i].url}
    IN  [k \in 1..Cardinality(first) |->
            d[CHOOSE i \in first : Cardinality({j \in first : j <= i}) = k]]

C1_KeepsFirstOccurrences ==
    /\ articles = C1_FirstOccurrences(discovered)
    /\ urls = [k \in 1..Len(articles) |-> articles[k].url]
    /\ \A i, j \in 1..Len(urls) : urls[i] = urls[j] => i = j

\* two e-mails processed: five articles met, the third repeats the first
\* and the fourth the second, three kept
C1_Witness ==
    /\ done = 2
    /\ Len(discovered) = 5
    /\ discovered[3].url = discovered[1].url
    /\ discovered[4].url = discovered[2].url
    /\ Len(articles) = 3

----------------------------------------------------------------------------
(* Order of the returned e-mails *)

SameInstant(a, b) == ~Less(a, b) /\ ~Less(b, a)

\* position of an e-mail in the provider's list
ListedAt(e) == CHOOSE k \in 1..Len(messages) : messages[k].id = e.id

NewestFirst(l) ==
    \A i, j \in 1..Len(l) : i < j => ~Less(l[i].date, l[j].date)

(* C2: a message whose Date is missing or does not parse gets the current  *)
(* time and never aborts the run: once such a message is fetched, no       *)
(* TypeError ends the run, and the e-mails that are returned are all the   *)
(* fetched ones, sorted newest first together.                             *)
C2_FallbackNeverAborts ==
    (\E i \in 1..Len(email_list) : ~email_list[i].date.aware) =>
        /\ err # "TypeError"
        /\ returned => (Range(emails) = Range(email_list) /\ NewestFirst(emails))

(* C3: what get_emails_by_subject returns is a permutation of the fetched  *)
(* messages, newest first, and messages of equal timestamp keep the order  *)
(* in which the provider listed them.                                      *)
C3_SortedStable ==
    returned =>
        /\ Len(emails) = Len(email_list)
        /\ Range(emails) = Range(email_list)
        /\ NewestFirst(emails)
        /\ \A i, j \in 1..Len(emails) :
              (i < j /\ SameInstant(emails[i].date, emails[j].date))
                  => ListedAt(emails[i]) < ListedAt(emails[j])

\* two messages returned whose Date headers spell the same instant in
\* different ways
C3_Witness ==
    /\ returned
    /\ Len(emails) = 2
    /\ emails[1].date # emails[2].date
    /\ SameInstant(emails[1].date, emails[2].date)

----------------------------------------------------------------------------
(* C7: a message that does not follow the digest layout is isolated: when  *)
(* the run has ended, the articles of every returned message that does     *)
(* follow the layout are in the raw digest.                                *)
C7_MalformedIsolated ==
    ( /\ returned
      /\ pc \in {"done", "crashed"}
      /\ \E k \in 1..Len(emails) : ~HasArticleSegment(emails[k].body) )
    => \A k \in 1..Len(emails) :
          HasArticleSegment(emails[k].body) =>
              /\ rawWrites = 1
              /\ \A a \in Range(CanonArticles(emails[k].body)) :
                    Occurrences(rawFile, a.url) # {}

----------------------------------------------------------------------------
(* C8: when the provider lists no message, no message is fetched, [] is    *)
(* returned without an exception, and main goes on: the raw digest holds   *)
(* the header block only, the summarization call is issued, and the        *)
(* formatted digest is written once the call has returned.                 *)
C8_EmptyResultProceeds ==
    (pc # "list" /\ messages = <<>>) =>
        /\ fetches = 0
        /\ returned /\ emails = <<>>
        /\ err \in {"none", "SummarizerError"}
        /\ pc \in {"extract", "summarize", "format"} => ENABLED Next
        /\ rawWrites >= 1 => rawFile = HeaderBlock \o <<"\n">>
        /\ calls >= 1 => rawWrites = 1
        /\ pc = "crashed" => (calls = 1 /\ response.state = "failed")
        /\ pc = "done" =>
              (rawWrites = 1 /\ calls = 1 /\ fmtWrites = 1 /\ fmtFile = response.text)

\* a run without messages that wrote both files
C8_Witness ==
    /\ messages = <<>>
    /\ pc = "done"
    /\ rawFile = HeaderBlock \o <<"\n">>
    /\ fmtWrites = 1

----------------------------------------------------------------------------
(* C9: the raw digest is written once, before the summarization call; the  *)
(* formatted digest is written at most once and only after the call has    *)
(* returned; when the call fails the run ends there, with the raw digest   *)
(* as written and no formatted digest.                                     *)
C9_Counts ==
    /\ rawWrites <= 1 /\ calls <= 1 /\ fmtWrites <= 1
    /\ calls >= 1 => rawWrites = 1
    /\ fmtWrites >= 1 => (calls = 1 /\ response.state = "returned")
    /\ pc = "done" => (rawWrites = 1 /\ fmtWrites = 1)
    /\ response.state = "failed" =>
          (pc = "crashed" /\ rawWrites = 1 /\ fmtWrites = 0)

C9_WriteOrder ==
    /\ []C9_Counts
    /\ [][rawWrites >= 1 => rawFile' = rawFile]_vars
    /\ [][response.state # "failed"]_vars

\* the call failed after a raw digest with articles was written
C9_Witness ==
    /\ response.state = "failed"
    /\ pc = "crashed"
    /\ rawWrites = 1
    /\ rawFile = RawDigestText(articles)
    /\ Len(articles) > 0

----------------------------------------------------------------------------
(* Specification of the canonicalization alone: a raw URL is drawn from the *)
(* strings over RawFrags, and the three substitutions are applied to it     *)
(* MaxApply times in a row.                                                 *)

RawFrags ==
    { HTTP, TRACK, <<"<">>, <<">">>, <<"x">>, <<"\n">>,
      <<"h", "t">>, <<"t", "p">>, <<"&", "c", "t", "=">>, <<"g", "a", "&">> }

RECURSIVE StringsOver(_, _)
StringsOver(F, n) ==
    IF n = 0 THEN {<<>>}
    ELSE LET P == StringsOver(F, n - 1)
         IN  P \cup {p \o f : p \in P, f \in F}

RawUrls == StringsOver(RawFrags, MaxFrags)

CanonInit ==
    /\ cRaw \in RawUrls
    /\ cUrl = cRaw
    /\ cPrev = cRaw
    /\ cN = 0
    /\ ExtractIdle /\ BodyIdle /\ RunIdle

CanonApply ==
    /\ cN < MaxApply
    /\ cPrev' = cUrl
    /\ cUrl' = Canonicalize(cUrl)
    /\ cN' = cN + 1
    /\ UNCHANGED cRaw

CanonNext == CanonApply /\ UNCHANGED <<extractVars, bodyVars, runVars>>

SpecCanon == CanonInit /\ [][CanonNext]_vars

----------------------------------------------------------------------------
(* Specification of the extraction alone: a body is built from delimiter-  *)
(* free segments and from blocks of non-empty lines without line breaks,   *)
(* and lines 161-164 are applied to it.                                    *)

GenBlocks ==
    { [lines |-> << <<"A">> >>,                  url |-> <<"u", "1">>],
      [lines |-> << <<" ", "B">>, <<"c", " ">> >>, url |-> <<" ", "<", "u", "2", ">", " ">>],
      [lines |-> << <<"D", " ", "e">>, <<"f">> >>, url |-> <<"u", "1">>],
      [lines |-> << <<"\t", "G">> >>,            url |-> <<"u", "3", "\t">>] }

GenInputs ==
    [ seg0   : {<<>>, <<"x">>},
      d1     : {DELIM_EQ, DELIM_DASH},
      seg1   : {<<>>, <<" ", "y", "=">>},
      d2     : {DELIM_EQ, DELIM_DASH},
      header : {<<>>, <<"H">>},
      blocks : SeqsUpTo(GenBlocks, MaxBlocks),
      footer : {<<>>, <<"F", "\r", "\n", "-">>} ]

ExtractInit ==
    /\ xIn \in GenInputs
    /\ xBody = DigestBody(xIn)
    /\ xOut = <<"pending">>
    /\ CanonIdle /\ BodyIdle /\ RunIdle

ExtractApply ==
    /\ xOut = <<"pending">>
    /\ xOut' = <<"done", RawArticles(xBody)>>
    /\ UNCHANGED <<xIn, xBody>>

ExtractNext == ExtractApply /\ UNCHANGED <<canonVars, bodyVars, runVars>>

SpecExtract == ExtractInit /\ [][ExtractNext]_vars

----------------------------------------------------------------------------
(* Specification of the body selection alone: a payload is drawn from the  *)
(* single-part and multi-part shapes, and lines 116-123 are applied to it. *)

GenPartBodies ==
    { [size |-> 0],
      [size |-> 1, data |-> EncodeText(<<"A">>)],
      [size |-> 2, data |-> EncodeText(<<"B", "b">>)] }

GenParts == [mimeType : {"text/plain", "text/html"}, body : GenPartBodies]

GenTopBodies == { [size |-> 0], [size |-> 3, data |-> EncodeText(<<"T", "o", "p">>)] }

GenPayloads ==
    {[mimeType |-> "text/plain"]}
    \cup {[mimeType |-> "text/plain", body |-> b] : b \in GenTopBodies}
    \cup {[mimeType |-> "multipart/alternative", parts |-> ps] :
            ps \in SeqsUpTo(GenParts, MaxParts) \ {<<>>}}
    \cup {[mimeType |-> "multipart/alternative", parts |-> ps, body |-> b] :
            ps \in SeqsUpTo(GenParts, MaxParts) \ {<<>>}, b \in GenTopBodies}

BodyInit ==
    /\ bPayload \in GenPayloads
    /\ bOut = [err |-> "pending", body |-> <<>>]
    /\ CanonIdle /\ ExtractIdle /\ RunIdle

BodyApply ==
    /\ bOut.err = "pending"
    /\ bOut' = SelectBody(bPayload)
    /\ UNCHANGED bPayload

BodyNext == BodyApply /\ UNCHANGED <<canonVars, extractVars, runVars>>

SpecBody == BodyInit /\ [][BodyNext]_vars

----------------------------------------------------------------------------
(* Body selection, stated on the payload *)

C10_MultiPart == "parts" \in DOMAIN bPayload

\* index of the first text/plain part, 0 when there is none
C10_FirstPlain ==
    IF C10_MultiPart /\ \E i \in 1..Len(bPayload.parts) : bPayload.parts[i].mimeType = "text/plain"
    THEN CHOOSE i \in 1..Len(bPayload.parts) :
            /\ bPayload.parts[i].mimeType = "text/plain"
            /\ \A j \in 1..(i - 1) : bPayload.parts[j].mimeType # "text/plain"
    ELSE 0

C10_TopData == "body" \in DOMAIN bPayload /\ "data" \in DOMAIN bPayload.body

\* C10 as stated: the decoded first text/plain part of a multi-part payload;
\* otherwise the decoded top-level body when top-level data is present, also
\* for a multi-part payload without text/plain part; otherwise empty.
C10_FallsBackToTopLevel ==
    bOut.err = "none" =>
        /\ C10_FirstPlain # 0 =>
              bOut.body = DecodeData(bPayload.parts[C10_FirstPlain].body.data)
        /\ (C10_FirstPlain = 0 /\ C10_TopData) =>
              bOut.body = DecodeData(bPayload.body.data)
        /\ (C10_FirstPlain = 0 /\ ~C10_TopData) => bOut.body = <<>>

(* C10, amended: the body is the decoded first text/plain part when the    *)
(* payload is multi-part and has such a part (which must carry inline      *)
(* data: without it the lookup raises KeyError); otherwise it is the       *)
(* decoded top-level body when the payload is NOT multi-part and top-level *)
(* data is present; otherwise it is empty, also for a multi-part payload   *)
(* without text/plain part that has top-level data.                        *)
C10_TopLevelOnlyWhenSinglePart ==
    bOut.err # "pending" =>
        /\ (C10_FirstPlain # 0 /\ "data" \in DOMAIN bPayload.parts[C10_FirstPlain].body) =>
              bOut = [err |-> "none",
                      body |-> DecodeData(bPayload.parts[C10_FirstPlain].body.data)]
        /\ (C10_FirstPlain # 0 /\ "data" \notin DOMAIN bPayload.parts[C10_FirstPlain].body) =>
              bOut.err = "KeyError"
        /\ (~C10_MultiPart /\ C10_TopData) =>
              bOut = [err |-> "none", body |-> DecodeData(bPayload.body.data)]
        /\ (C10_FirstPlain = 0 /\ (C10_MultiPart \/ ~C10_TopData)) =>
              bOut = [err |-> "none", body |-> <<>>]

\* a multi-part payload without text/plain part but with top-level data,
\* for which the selected body is empty
C10_Witness ==
    /\ bOut.err = "none"
    /\ C10_MultiPart /\ Len(bPayload.parts) > 0
    /\ C10_FirstPlain = 0
    /\ C10_TopData
    /\ bOut.body = <<>>

----------------------------------------------------------------------------
(* C4: extraction round trip. For a body built as segment, delimiter,      *)
(* segment, delimiter, article segment, lines 161-164 yield one (summary,  *)
(* url) pair per block, in block order: the summary is the block's         *)
(* non-final lines joined and trimmed, the url its trimmed last line; the  *)
(* header and footer chunks yield nothing.                                 *)
C4_Expected ==
    [i \in 1..Len(xIn.blocks) |->
        [ body |-> Strip(Concat(xIn.blocks[i].lines)),
          url  |-> Strip(xIn.blocks[i].url) ]]

C4_RoundTrip == xOut[1] = "done" => xOut[2] = C4_Expected

\* two blocks extracted from a body with a header and a footer chunk, one
\* block of two summary lines whose URL line needs trimming
C4_Witness ==
    /\ xOut[1] = "done"
    /\ Len(xOut[2]) = 2
    /\ xIn.header # <<>> /\ xIn.footer # <<>>
    /\ \E i \in 1..2 : Len(xIn.blocks[i].lines) = 2 /\ xOut[2][i].url # xIn.blocks[i].url

----------------------------------------------------------------------------
(* Redirect unwrapping, stated on occurrences of 'http' *)

\* s cut in front of the first '&ct=ga&' (s has no line feed)
CutAtTracking(s) ==
    IF Occurrences(s, TRACK) = {} THEN s
    ELSE SubSeq(s, 1, Min(Occurrences(s, TRACK)) - 1)

\* the raw URL has no line feed and, once '<' and '>' are removed, holds
\* exactly two occurrences of 'http'
C5_TwoHttp ==
    /\ cN = 1
    /\ \A i \in 1..Len(cRaw) : cRaw[i] # "\n"
    /\ Cardinality(Occurrences(RemoveBrackets(cRaw), HTTP)) = 2

\* C5 as stated: with two occurrences of 'http' the canonical result keeps
\* only the text from the second 'http' onward; whatever precedes the first
\* 'http' is discarded too.
C5_KeepsOnlyFromSecond ==
    C5_TwoHttp =>
        LET s == RemoveBrackets(cRaw)
        IN  cUrl = CutAtTracking(SubSeq(s, Max(Occurrences(s, HTTP)), Len(s)))

(* C5, amended: with two occurrences of 'http' (counted once '<' and '>'   *)
(* are removed, in a URL without line feed) the canonical result is the    *)
(* text in front of the first 'http', kept, followed by the text from the  *)
(* second 'http' onward, cut in front of the first '&ct=ga&'.              *)
C5_KeepsPrefixAndFromSecond ==
    C5_TwoHttp =>
        LET s == RemoveBrackets(cRaw)
            H == Occurrences(s, HTTP)
        IN  cUrl = CutAtTracking(SubSeq(s, 1, Min(H) - 1) \o SubSeq(s, Max(H), Len(s)))

\* a wrapped URL with text in front of the first 'http' and after the second
C5_Witness ==
    /\ C5_TwoHttp
    /\ Min(Occurrences(RemoveBrackets(cRaw), HTTP)) > 1
    /\ Max(Occurrences(RemoveBrackets(cRaw), HTTP)) + 4 <= Len(RemoveBrackets(cRaw))
    /\ cUrl # RemoveBrackets(cRaw)

----------------------------------------------------------------------------
(* C6: canonicalization is idempotent: a second application of the three   *)
(* substitutions returns the canonical string unchanged.                   *)
C6_Idempotent == cN >= 2 => cUrl = cPrev

\* a raw URL with brackets that the collapse or the truncation shortened,
\* canonicalized twice
C6_Witness ==
    /\ cN = 2
    /\ cRaw # RemoveBrackets(cRaw)
    /\ cPrev # RemoveBrackets(cRaw)
    /\ cPrev # <<>>

====
